---------------------------- MODULE Spec2Model ----------------------------
(* pytunnel: the relay server of server.py.                                *)
(*                                                                         *)
(* One asyncio event loop runs every websocket_handler (one per control    *)
(* connection) and every http_handler (one per public request).  A         *)
(* coroutine runs alone from one await to the next, so each action below   *)
(* is the code between two awaits.  The only loop without an await, the    *)
(* subdomain generation loop, is modelled iteration by iteration under the *)
(* variable `running`, which keeps every other coroutine from moving.      *)
EXTENDS Integers, Sequences, FiniteSets, TLC

(* ----------------------------- bounds ---------------------------------- *)
NumConns == 2
NumLabels == 2
NumReqs == 2
NumRequestIds == 2
\* turns of the generation loop that are counted; further turns are not
MaxRetries == 3
\* the idle timeout, in ticks of the clock; idle time beyond it is not counted
IdleTimeout == 2
\* request frames a client receives on one connection
MaxFrames == 3

Conns == 1..NumConns
Labels == 1..NumLabels
Reqs == 1..NumReqs
\* the values str(random.randint(1000, 9999)) can take, cut down to a few
RequestIds == 1..NumRequestIds

\* the label 'default' (7 characters, so never a generated 8-character label)
DefaultLabel == 0
\* request_id absent from a frame: data.get('request_id') is None
NoId == 0
NoConn == 0
NoReq == 0

VARIABLES
    tunnels,            \* dict subdomain -> websocket
    subdomains,         \* dict subdomain -> websocket
    pending_responses,  \* defaultdict(dict): subdomain -> request_id -> future
    fut,                \* the asyncio.Future each http_handler created
    running,            \* the coroutine inside the generation loop, or NoConn
    wpc,                \* websocket_handler: position
    wsub,               \* websocket_handler: local variable subdomain
    retries,            \* websocket_handler: turns of the generation loop so far
    idle,               \* time since the last message of the connection
    link,               \* state of the connection's transport
    teardowns,          \* number of times the finally block of the handler ran
    sent,               \* frames sent on each connection, in order
    hpc,                \* http_handler: position
    hsub,               \* http_handler: local variable subdomain
    hrid,               \* http_handler: local variable request_id
    hws,                \* http_handler: local variable ws
    hstatus,            \* status of the HTTP response returned, 0 before
    response_data,      \* http_handler: the frame wait_for returned
    response,           \* http_handler: the web.Response built from it
    cpc,                \* client: position in handle_websocket_connection
    cdata,              \* client: local variable data, the frame being served
    cresponse,          \* client: local variable response
    crecv,              \* client: the request frames received, in order
    csent,              \* client: the frames sent, in order
    reachable,          \* tunnel_client: whether the server can be reached
    cattempts,          \* tunnel_client: calls of websockets.connect so far
    cinvalid,           \* client: whether text that is not JSON came in the loop
    rtunnels,           \* server_render: tunnel_manager.tunnels
    rcounter,           \* server_render: tunnel_manager.counter
    rpc,                \* server_render: websocket_handler, position
    rtid,               \* server_render: websocket_handler, local tunnel_id
    rremovals,          \* server_render: remove_tunnel calls for that id
    rreply,             \* server_render: the frame sent for the last message
    gpc,                \* generate_subdomain: position
    gsub,               \* generate_subdomain: the characters joined so far
    greturned,          \* generate_subdomain: the texts returned, in order
    groute,             \* http_handler: the routing decision for a Host
    ppc,                \* find_available_port: position
    pstart,             \* find_available_port: start_port
    pmax,               \* find_available_port: max_port
    pbusy,              \* the ports on which bind raises OSError
    pport,              \* find_available_port: loop variable port
    spc,                \* start_server: position
    senv,               \* start_server: what the call meets
    suse_ssl,           \* start_server: local variable use_ssl
    sssl_context,       \* start_server: local variable ssl_context
    sraised,            \* start_server: whether create_ssl_context raised
    sws,                \* start_server: how the WebSocket listener started
    shttp               \* start_server: how the HTTP listener started

serverVars == <<tunnels, subdomains, pending_responses, fut, running, wpc,
                wsub, retries, idle, link, teardowns, sent, hpc, hsub, hrid,
                hws, hstatus>>

\* the variables of the parts specified on their own, which the relay's
\* actions leave alone
respondVars == <<response_data, response>>
clientVars == <<cpc, cdata, cresponse, crecv, csent, reachable, cattempts,
                cinvalid>>
renderVars == <<rtunnels, rcounter, rpc, rtid, rremovals, rreply>>
textVars == <<gpc, gsub, greturned, groute>>
portVars == <<ppc, pstart, pmax, pbusy, pport>>
startVars == <<spc, senv, suse_ssl, sssl_context, sraised, sws, shttp>>
otherVars == <<respondVars, clientVars, renderVars, textVars, portVars,
               startVars>>

\* what the actions of one part leave alone outside that part
notRespondVars == <<serverVars, clientVars, renderVars, textVars, portVars,
                    startVars>>
notClientVars == <<serverVars, respondVars, renderVars, textVars, portVars,
                   startVars>>
notRenderVars == <<serverVars, respondVars, clientVars, textVars, portVars,
                   startVars>>
notTextVars == <<serverVars, respondVars, clientVars, renderVars, portVars,
                 startVars>>
notPortVars == <<serverVars, respondVars, clientVars, renderVars, textVars,
                 startVars>>
notStartVars == <<serverVars, respondVars, clientVars, renderVars, textVars,
                  portVars>>

vars == <<serverVars, otherVars>>

wsVars == <<wpc, wsub, retries, link, teardowns>>
httpVars == <<hpc, hsub, hrid, hws, hstatus>>
registry == <<tunnels, subdomains>>

(* ------------------------- dict operations ----------------------------- *)
\* d[k] = v
Put(d, k, v) == [x \in (DOMAIN d) \cup {k} |-> IF x = k THEN v ELSE d[x]]

\* d.pop(k, None) and `del d[k]` guarded by `k in d`
Pop(d, k) == [x \in (DOMAIN d) \ {k} |-> d[x]]

EmptyDict == [x \in {} |-> 0]

\* pending_responses[k] of a defaultdict(dict): a missing key is inserted
\* with an empty dict by the mere access
Touch(p, k) == IF k \in DOMAIN p THEN p ELSE Put(p, k, EmptyDict)

(* ------------------------------ frames --------------------------------- *)
SubdomainFrame(s) ==
    [type |-> "subdomain", subdomain |-> s, request_id |-> NoId, origin |-> NoReq]

\* a request frame that leaves out the request_id
RequestFrameNoId(id, r) ==
    [type |-> "http-request", subdomain |-> DefaultLabel, request_id |-> NoId,
     origin |-> r]

\* origin is not on the wire: it names the invocation that sent the frame and
\* stands for the method, path, headers and body the frame carries
RequestFrame(id, r) ==
    [type |-> "http-request", subdomain |-> DefaultLabel, request_id |-> id,
     origin |-> r]

ResponseFrame(id, r) == [type |-> "http-response", request_id |-> id, for |-> r]

\* the request frames sent so far on connection c
RequestsSent(c) ==
    {sent[c][i] : i \in {j \in 1..Len(sent[c]) : sent[c][j].type = "http-request"}}

\* the frames the read loop has no use for: text that is not JSON, JSON
\* that is not an object (a list, a number), an object of another type
MalformedFrames ==
    {[type |-> "invalid-json", request_id |-> NoId, for |-> NoReq],
     [type |-> "not-an-object", request_id |-> NoId, for |-> NoReq],
     [type |-> "heartbeat", request_id |-> NoId, for |-> NoReq]}

\* every frame a client can put on the wire
Frames ==
    {ResponseFrame(id, r) : id \in RequestIds \cup {NoId}, r \in Reqs \cup {NoReq}}
      \cup MalformedFrames

\* pending_responses holds a future under (s, id)
HasPending(p, s, id) == s \in DOMAIN p /\ id \in DOMAIN p[s]

\* what the remote client of connection c may send next.  The client answers
\* only requests it has received (also late, also more than once); its other
\* frames are a response without request_id, a stray response whose
\* request_id belongs to no request of the session, and the malformed frames
ClientFrames(c) ==
    {ResponseFrame(f.request_id, f.origin) : f \in RequestsSent(c)}
      \cup {ResponseFrame(NoId, NoReq)}
      \cup {ResponseFrame(id, NoReq) :
              id \in {i \in RequestIds :
                        /\ \A f \in RequestsSent(c) : f.request_id # i
                        /\ ~HasPending(pending_responses, wsub[c], i)}}
      \cup MalformedFrames

(* ------------------------------ futures -------------------------------- *)
NoFuture == [state |-> "none", result |-> NoReq]
NewFuture == [state |-> "pending", result |-> NoReq]

(* ------------------------------- Init ---------------------------------- *)
ServerInit ==
    /\ tunnels = EmptyDict
    /\ subdomains = EmptyDict
    /\ pending_responses = EmptyDict
    /\ fut = [r \in Reqs |-> NoFuture]
    /\ running = NoConn
    /\ wpc = [c \in Conns |-> "new"]
    /\ wsub = [c \in Conns |-> DefaultLabel]
    /\ retries = [c \in Conns |-> 0]
    /\ idle = [c \in Conns |-> 0]
    /\ link = [c \in Conns |-> "idle"]
    /\ teardowns = [c \in Conns |-> 0]
    /\ sent = [c \in Conns |-> <<>>]
    /\ hpc = [r \in Reqs |-> "new"]
    /\ hsub = [r \in Reqs |-> DefaultLabel]
    /\ hrid = [r \in Reqs |-> NoId]
    /\ hws = [r \in Reqs |-> NoConn]
    /\ hstatus = [r \in Reqs |-> 0]

(* ------------------------- websocket_handler --------------------------- *)
\* generate_subdomain(): any label
generate_subdomain == Labels

\* the loop without its collision test
CollidesNever(s) == FALSE

\* the loop condition `subdomain in subdomains`
Collides(s) == s \in DOMAIN subdomains

\* a client connects; the handler starts and draws its first candidate
WsConnect(c) ==
    /\ running = NoConn
    /\ wpc[c] = "new"
    /\ \E s \in generate_subdomain : wsub' = [wsub EXCEPT ![c] = s]
    /\ wpc' = [wpc EXCEPT ![c] = "gen"]
    /\ link' = [link EXCEPT ![c] = "open"]
    /\ running' = c
    /\ UNCHANGED <<registry, pending_responses, fut, retries, teardowns, sent,
                   httpVars>>
    /\ UNCHANGED <<idle, otherVars>>

\* one more turn of the loop: the candidate is taken, draw another
WsRegenerate(c) ==
    /\ running = c
    /\ wpc[c] = "gen"
    /\ Collides(wsub[c])
    /\ \E s \in generate_subdomain : wsub' = [wsub EXCEPT ![c] = s]
    /\ retries' = [retries EXCEPT ![c] = IF @ < MaxRetries THEN @ + 1 ELSE @]
    /\ UNCHANGED <<registry, pending_responses, fut, running, wpc, link,
                   teardowns, sent, httpVars>>
    /\ UNCHANGED <<idle, otherVars>>

\* a registration that writes tunnels and leaves subdomains alone
WsRegisterTunnelsOnly(c) ==
    /\ running = c
    /\ wpc[c] = "gen"
    /\ ~Collides(wsub[c])
    /\ tunnels' = Put(tunnels, wsub[c], c)
    /\ wpc' = [wpc EXCEPT ![c] = "announce"]
    /\ running' = NoConn
    /\ retries' = [retries EXCEPT ![c] = 0]
    /\ UNCHANGED <<subdomains, pending_responses, fut, wsub, link, teardowns,
                   sent, httpVars>>
    /\ UNCHANGED <<idle, otherVars>>

\* the loop ends; the label is registered and the handler reaches the await
\* of the announcement
WsRegister(c) ==
    /\ running = c
    /\ wpc[c] = "gen"
    /\ ~Collides(wsub[c])
    /\ tunnels' = Put(tunnels, wsub[c], c)
    /\ subdomains' = Put(subdomains, wsub[c], c)
    /\ wpc' = [wpc EXCEPT ![c] = "announce"]
    /\ running' = NoConn
    /\ retries' = [retries EXCEPT ![c] = 0]
    /\ UNCHANGED <<pending_responses, fut, wsub, link, teardowns, sent, httpVars>>
    /\ UNCHANGED <<idle, otherVars>>

\* the transport of a connected client goes down (the peer closes, the
\* network fails); the handler learns of it at its next await
Disconnect(c) ==
    /\ running = NoConn
    /\ wpc[c] \in {"announce", "loop"}
    /\ link[c] = "open"
    /\ link' = [link EXCEPT ![c] = "down"]
    /\ UNCHANGED <<registry, pending_responses, fut, running, wpc, wsub,
                   retries, teardowns, sent, httpVars>>
    /\ UNCHANGED <<idle, otherVars>>

\* the handler is left, by return or by an exception: its local variables
\* are gone and the library closes the connection
Return(c) ==
    /\ wpc' = [wpc EXCEPT ![c] = "exited"]
    /\ wsub' = [wsub EXCEPT ![c] = DefaultLabel]
    /\ link' = [link EXCEPT ![c] = "closed"]
    /\ idle' = [idle EXCEPT ![c] = 0]

\* await websocket.send(subdomain message): outside the try, so a failure
\* leaves the handler without running the finally block
WsAnnounce(c) ==
    /\ running = NoConn
    /\ wpc[c] = "announce"
    /\ IF link[c] = "open"
         THEN /\ sent' = [sent EXCEPT ![c] = Append(@, SubdomainFrame(wsub[c]))]
              /\ wpc' = [wpc EXCEPT ![c] = "loop"]
              /\ UNCHANGED <<wsub, link, idle>>
         ELSE /\ Return(c)
              /\ UNCHANGED sent
    /\ UNCHANGED <<registry, pending_responses, fut, running, retries,
                   teardowns, httpVars>>
    /\ UNCHANGED otherVars

\* a set_result that replaces whatever the future holds
SetResultOverwrites(f) == FALSE

\* Future.set_result(data): InvalidStateError unless the future is pending
SetResultRaises(f) == f.state # "pending"

\* the body of the read loop for one message of connection c
\* (the except clauses inside the loop catch whatever the body raises)
OnMessage(c, frame) ==
    IF frame.type = "http-response" /\ frame.request_id # NoId
      THEN LET p == Touch(pending_responses, wsub[c]) IN
           /\ pending_responses' = p
           /\ IF frame.request_id \in DOMAIN p[wsub[c]]
                THEN LET r == p[wsub[c]][frame.request_id] IN
                     IF SetResultRaises(fut[r])
                       THEN UNCHANGED fut
                       ELSE fut' = [fut EXCEPT ![r] =
                                      [state |-> "done", result |-> frame.for]]
                ELSE UNCHANGED fut
      ELSE UNCHANGED <<pending_responses, fut>>

\* a finally block that clears the three tables
TeardownAll(c) ==
    /\ tunnels' = EmptyDict
    /\ subdomains' = EmptyDict
    /\ pending_responses' = EmptyDict
    /\ teardowns' = [teardowns EXCEPT ![c] = @ + 1]

\* the finally block
Teardown(c) ==
    /\ tunnels' = Pop(tunnels, wsub[c])
    /\ subdomains' = Pop(subdomains, wsub[c])
    /\ pending_responses' = Pop(pending_responses, wsub[c])
    /\ teardowns' = [teardowns EXCEPT ![c] = @ + 1]

\* what the body raises for the frame, "none" when it raises nothing:
\* json.loads on line 75, data.get on line 78, set_result on line 83
Raised(c, frame) ==
    CASE frame.type = "invalid-json" -> "JSONDecodeError"
      [] frame.type = "not-an-object" -> "AttributeError"
      [] /\ frame.type = "http-response"
         /\ HasPending(pending_responses, wsub[c], frame.request_id)
         /\ SetResultRaises(fut[pending_responses[wsub[c]][frame.request_id]])
           -> "InvalidStateError"
      [] OTHER -> "none"

\* a loop body whose only except clause is the one for JSONDecodeError
OnlyJsonCaught(exc) == exc \in {"none", "JSONDecodeError"}

\* `except json.JSONDecodeError` (line 87) and `except Exception` (line 89)
\* inside the loop: nothing the body raises gets out of the loop
CaughtInLoop(exc) == TRUE

\* one message of connection c is read and handled; an exception that the
\* loop did not catch would leave the handler through the finally block
WsReceive(c, frame) ==
    /\ running = NoConn
    /\ wpc[c] = "loop"
    /\ link[c] = "open"
    /\ frame \in ClientFrames(c)
    /\ IF CaughtInLoop(Raised(c, frame))
         THEN /\ OnMessage(c, frame)
              /\ idle' = [idle EXCEPT ![c] = 0]
              /\ UNCHANGED <<registry, wsVars>>
         ELSE /\ Teardown(c)
              /\ Return(c)
              /\ UNCHANGED <<fut, retries>>
    /\ UNCHANGED <<running, sent, httpVars>>
    /\ UNCHANGED otherVars

\* the ways the read loop ends: the stream ends (the async for is exhausted),
\* ConnectionClosed is raised and caught, another exception is raised and
\* propagates; the finally block runs in each
LoopEnds == {"eof", "ConnectionClosed", "exception"}

WsLoopExit(c, how) ==
    /\ running = NoConn
    /\ wpc[c] = "loop"
    /\ link[c] = "down"
    /\ how \in LoopEnds
    /\ Teardown(c)
    /\ Return(c)
    /\ UNCHANGED <<fut, running, retries, sent, httpVars>>
    /\ UNCHANGED otherVars

\* time passes for a handler that waits in `async for` for the next message
\* of an open connection; nothing in the handler looks at the clock
Tick(c) ==
    /\ running = NoConn
    /\ wpc[c] = "loop"
    /\ link[c] = "open"
    /\ idle[c] <= IdleTimeout
    /\ idle' = [idle EXCEPT ![c] = @ + 1]
    /\ UNCHANGED <<registry, pending_responses, fut, running, wpc, wsub,
                   retries, link, teardowns, sent, httpVars, otherVars>>

(* ---------------------------- http_handler ----------------------------- *)
\* a Host header as its dot-separated parts
Hosts == {<<l, DefaultLabel>> : l \in Labels} \cup {<<l>> : l \in Labels}

\* host.split('.')[0] if '.' in host else 'default'
HostLabel(host) == IF Len(host) > 1 THEN host[1] ELSE DefaultLabel

\* the handler returns a response; its local variables are gone
Finish(r, status) ==
    /\ hpc' = [hpc EXCEPT ![r] = "done"]
    /\ hstatus' = [hstatus EXCEPT ![r] = status]
    /\ hsub' = [hsub EXCEPT ![r] = DefaultLabel]
    /\ hrid' = [hrid EXCEPT ![r] = NoId]
    /\ hws' = [hws EXCEPT ![r] = NoConn]

\* a 404 path that has already looked into pending_responses[subdomain]
NotFoundTouch(r, s) ==
    /\ Finish(r, 404)
    /\ pending_responses' = Touch(pending_responses, s)
    /\ UNCHANGED fut

\* `if subdomain not in tunnels`: 404 and nothing else
NotFound(r, s) ==
    /\ Finish(r, 404)
    /\ UNCHANGED <<pending_responses, fut>>

\* a handler that stores its future without looking the subdomain up
HttpStartUnchecked(r, host) ==
    /\ running = NoConn
    /\ hpc[r] = "new"
    /\ LET s == HostLabel(host) IN
         /\ \E id \in RequestIds :
              /\ hrid' = [hrid EXCEPT ![r] = id]
              /\ pending_responses' =
                   Put(pending_responses, s,
                       Put(Touch(pending_responses, s)[s], id, r))
         /\ hsub' = [hsub EXCEPT ![r] = s]
         /\ hws' = [hws EXCEPT ![r] =
                      IF s \in DOMAIN tunnels THEN tunnels[s] ELSE NoConn]
         /\ fut' = [fut EXCEPT ![r] = NewFuture]
         /\ hpc' = [hpc EXCEPT ![r] = "body"]
         /\ UNCHANGED hstatus
    /\ UNCHANGED <<registry, running, wsVars, sent>>
    /\ UNCHANGED <<idle, otherVars>>

\* from the start of the handler to `await request.text()`
HttpStart(r, host) ==
    /\ running = NoConn
    /\ hpc[r] = "new"
    /\ LET s == HostLabel(host) IN
       IF s \notin DOMAIN tunnels
         THEN NotFound(r, s)
         ELSE /\ \E id \in RequestIds :
                   /\ hrid' = [hrid EXCEPT ![r] = id]
                   /\ pending_responses' =
                        Put(pending_responses, s,
                            Put(Touch(pending_responses, s)[s], id, r))
              /\ hsub' = [hsub EXCEPT ![r] = s]
              /\ hws' = [hws EXCEPT ![r] = tunnels[s]]
              /\ fut' = [fut EXCEPT ![r] = NewFuture]
              /\ hpc' = [hpc EXCEPT ![r] = "body"]
              /\ UNCHANGED hstatus
    /\ UNCHANGED <<registry, running, wsVars, sent>>
    /\ UNCHANGED <<idle, otherVars>>

\* request.text() returns or raises, then ws.send(request frame) succeeds or
\* raises; an exception here is caught by the outer except only
HttpSend(r) ==
    /\ running = NoConn
    /\ hpc[r] = "body"
    /\ \E bodyRead \in BOOLEAN :
         IF bodyRead /\ link[hws[r]] = "open"
           THEN /\ sent' = [sent EXCEPT ![hws[r]] = Append(@, RequestFrame(hrid[r], r))]
                /\ hpc' = [hpc EXCEPT ![r] = "wait"]
                /\ UNCHANGED <<hstatus, hsub, hrid, hws>>
           ELSE /\ Finish(r, 500)
                /\ UNCHANGED sent
    /\ UNCHANGED <<registry, pending_responses, fut, running, wsVars>>
    /\ UNCHANGED <<idle, otherVars>>

\* a wait without deadline
TimeoutNever(r) == FALSE /\ UNCHANGED vars

\* the 30 s of asyncio.wait_for pass: it cancels the future
Timeout(r) ==
    /\ running = NoConn
    /\ hpc[r] = "wait"
    /\ fut[r].state = "pending"
    /\ fut' = [fut EXCEPT ![r] = [state |-> "cancelled", result |-> NoReq]]
    /\ UNCHANGED <<registry, pending_responses, running, wsVars, sent, httpVars>>
    /\ UNCHANGED <<idle, otherVars>>

\* a handler without the inner finally block
CleanupNothing(r) == UNCHANGED pending_responses

\* the inner finally block
Cleanup(r) ==
    IF HasPending(pending_responses, hsub[r], hrid[r])
      THEN pending_responses' =
             Put(pending_responses, hsub[r], Pop(pending_responses[hsub[r]], hrid[r]))
      ELSE UNCHANGED pending_responses

\* the handler wakes up from wait_for with the result or with TimeoutError
HttpResume(r) ==
    /\ running = NoConn
    /\ hpc[r] = "wait"
    /\ fut[r].state \in {"done", "cancelled"}
    /\ IF fut[r].state = "done"
         THEN Finish(r, 200)
         ELSE Finish(r, 504)
    /\ Cleanup(r)
    /\ UNCHANGED <<registry, fut, running, wsVars, sent>>
    /\ UNCHANGED <<idle, otherVars>>

\* no response built yet
NoResponse == [status |-> 0, text |-> "", headers |-> EmptyDict]

\* in the specification of the relay itself no frame is held
RespondIdle ==
    /\ response_data = EmptyDict
    /\ response = NoResponse

\* tunnel_id of a connection that created no tunnel: None
NoTunnel == <<>>

\* in the specification of the relay itself no server_render.py runs
RenderIdle ==
    /\ rtunnels = <<>>
    /\ rcounter = 0
    /\ rpc = [c \in Conns |-> "off"]
    /\ rtid = [c \in Conns |-> NoTunnel]
    /\ rremovals = [c \in Conns |-> 0]
    /\ rreply = [c \in Conns |-> "none"]

\* the routing decision not taken yet
NoRoute ==
    [handler |-> "none", method |-> "", path |-> "", host |-> <<>>,
     subdomain |-> <<>>, status |-> 0, found |-> FALSE, text |-> <<>>,
     active |-> 0]

\* in the specification of the relay itself generate_subdomain's text is
\* not spelled out
TextIdle ==
    /\ gpc = "off"
    /\ gsub = <<>>
    /\ greturned = <<>>
    /\ groute = NoRoute

\* in the specification of the relay itself find_available_port is not
\* called and start_server is not spelled out
PortIdle ==
    /\ ppc = "off"
    /\ pstart = 0
    /\ pmax = 0
    /\ pbusy = {}
    /\ pport = 0

StartIdle ==
    /\ spc = "off"
    /\ senv = [USE_SSL |-> FALSE, certs |-> FALSE, cert_dir |-> FALSE,
               ws_port |-> FALSE, http_port |-> FALSE]
    /\ suse_ssl = FALSE
    /\ sssl_context = "None"
    /\ sraised = FALSE
    /\ sws = "none"
    /\ shttp = "none"

(* ------------------------------ client.py ------------------------------ *)
\* what the local server does with a forwarded request: it answers, or the
\* call raises (connection refused, timeout); NotCalled marks a request frame
\* for which handle_local_request was never called
NotCalled ==
    [called |-> FALSE, ok |-> FALSE, status |-> 0, body |-> "",
     headers |-> EmptyDict]

Upstreams ==
    {[called |-> TRUE, ok |-> TRUE, status |-> st, body |-> "ok", headers |-> hd] :
        st \in {200, 404},
        hd \in {EmptyDict, [h \in {"Content-Type"} |-> "text/html"]}}
      \cup {[called |-> TRUE, ok |-> FALSE, status |-> 0,
             body |-> "Error: refused", headers |-> EmptyDict]}

\* what recv() can hand to the client: the messages of a server, text that
\* is not JSON, JSON that is not an object, or ConnectionClosed raised
ServerMessages ==
    {[type |-> t, request_id |-> NoId] :
        t \in {"subdomain", "heartbeat_ack", "invalid-json", "not-an-object",
               "ConnectionClosed"}}
      \cup {[type |-> "http-request", request_id |-> id] :
               id \in RequestIds \cup {NoId}}

NoMessage == [type |-> "none", request_id |-> NoId]

\* handle_local_request(data): the upstream's response as a frame, or the
\* status-500 frame (without headers) when the call raises
handle_local_request(data, up) ==
    IF up.ok
      THEN [type |-> "http-response", request_id |-> data.request_id,
            status |-> up.status, headers |-> up.headers, body |-> up.body]
      ELSE [type |-> "http-response", request_id |-> data.request_id,
            status |-> 500, body |-> up.body]

\* in the specification of the relay itself no client runs
ClientIdle ==
    /\ cpc = "off"
    /\ cdata = NoMessage
    /\ cresponse = NoMessage
    /\ crecv = <<>>
    /\ csent = <<>>
    /\ reachable = TRUE
    /\ cattempts = 0
    /\ cinvalid = FALSE

\* handle_websocket_connection is entered on a fresh connection
ClientInit ==
    /\ ServerInit
    /\ RespondIdle
    /\ RenderIdle
    /\ TextIdle
    /\ PortIdle
    /\ StartIdle
    /\ cpc = "handshake"
    /\ cdata = NoMessage
    /\ cresponse = NoMessage
    /\ crecv = <<>>
    /\ csent = <<>>
    /\ reachable = TRUE
    /\ cattempts = 0
    /\ cinvalid = FALSE

\* lines 119-124: the handler is left by break, so it returns normally
ClientEnd ==
    /\ cpc' = "ended"
    /\ cdata' = NoMessage
    /\ cresponse' = NoMessage

\* lines 96-97: an exception of the handshake leaves the handler raised
ClientRaise ==
    /\ cpc' = "raised"
    /\ cdata' = NoMessage
    /\ cresponse' = NoMessage

\* lines 96-101: the first message is taken as the subdomain assignment,
\* whatever its type; nothing here is inside a try
ClientHandshake(msg) ==
    /\ cpc = "handshake"
    /\ IF msg.type \in {"ConnectionClosed", "invalid-json", "not-an-object"}
         THEN ClientRaise /\ UNCHANGED crecv
         ELSE /\ cpc' = "recv"
              /\ crecv' = IF msg.type = "http-request"
                            THEN Append(crecv, [request_id |-> msg.request_id,
                                                up |-> NotCalled,
                                                inLoop |-> FALSE])
                            ELSE crecv
              /\ UNCHANGED <<cdata, cresponse>>
    /\ UNCHANGED <<csent, reachable, cattempts, cinvalid, notClientVars>>

\* a loop that JSONDecodeError ends as well
BreaksLoopOnInvalidJson(msg) ==
    msg.type \in {"ConnectionClosed", "not-an-object", "invalid-json"}

\* lines 119-124: ConnectionClosed of recv() and any exception other than
\* JSONDecodeError break the loop
BreaksLoop(msg) == msg.type \in {"ConnectionClosed", "not-an-object"}

\* lines 106-110 and 117-124: one message of the loop up to the call of
\* handle_local_request
ClientRecv(msg, up) ==
    /\ cpc = "recv"
    /\ cinvalid' = (cinvalid \/ msg.type = "invalid-json")
    /\ CASE BreaksLoop(msg) ->
              ClientEnd /\ UNCHANGED crecv
         [] msg.type = "http-request" ->
              /\ Len(crecv) < MaxFrames
              /\ crecv' = Append(crecv, [request_id |-> msg.request_id,
                                         up |-> up, inLoop |-> TRUE])
              /\ cdata' = msg
              /\ cpc' = "local"
              /\ UNCHANGED cresponse
         [] OTHER -> UNCHANGED <<cpc, cdata, cresponse, crecv>>
    /\ UNCHANGED <<csent, reachable, cattempts, notClientVars>>

\* a loop that starts the local call as a task and goes back to recv()
ClientLocalDetached ==
    /\ cpc = "local"
    /\ cresponse' = handle_local_request(cdata, crecv[Len(crecv)].up)
    /\ cpc' = "recv"
    /\ UNCHANGED <<cdata, crecv, csent, reachable, cattempts, cinvalid,
                   notClientVars>>

\* line 113: the local call returns its frame
ClientLocal ==
    /\ cpc = "local"
    /\ cresponse' = handle_local_request(cdata, crecv[Len(crecv)].up)
    /\ cpc' = "send"
    /\ UNCHANGED <<cdata, crecv, csent, reachable, cattempts, cinvalid,
                   notClientVars>>

\* line 116: the response is sent, or send raises ConnectionClosed and the
\* loop breaks
ClientSend(open) ==
    /\ cpc = "send"
    /\ IF open
         THEN /\ csent' = Append(csent, cresponse)
              /\ cpc' = "recv"
              /\ cdata' = NoMessage
              /\ cresponse' = NoMessage
         ELSE ClientEnd /\ UNCHANGED csent
    /\ UNCHANGED <<crecv, reachable, cattempts, cinvalid, notClientVars>>

ClientNext ==
    \/ \E msg \in ServerMessages : ClientHandshake(msg)
    \/ \E msg \in ServerMessages : \E up \in Upstreams : ClientRecv(msg, up)
    \/ ClientLocal
    \/ \E open \in BOOLEAN : ClientSend(open)

ClientSpec == ClientInit /\ [][ClientNext]_vars

(* --------------------------- tunnel_client ----------------------------- *)
\* connect attempts that are counted; further attempts are not
MaxAttempts == 2

\* what recv() hands over on a connection of tunnel_client: the frames
\* server.py sends while the server can be reached, ConnectionClosed when
\* it cannot
Delivers(msg) ==
    IF reachable
      THEN msg.type \in {"subdomain", "http-request"}
      ELSE msg.type = "ConnectionClosed"

\* tunnel_client reaches its loop with nothing connected
TunnelInit ==
    /\ ServerInit
    /\ RespondIdle
    /\ RenderIdle
    /\ TextIdle
    /\ PortIdle
    /\ StartIdle
    /\ cpc = "connect"
    /\ cdata = NoMessage
    /\ cresponse = NoMessage
    /\ crecv = <<>>
    /\ csent = <<>>
    /\ reachable \in BOOLEAN
    /\ cattempts = 0
    /\ cinvalid = FALSE

\* lines 81-86: websockets.connect opens the connection and the handler is
\* entered, or connect raises and the except branch starts its sleep
TunnelConnect ==
    /\ cpc = "connect"
    /\ cattempts' = IF cattempts < MaxAttempts THEN cattempts + 1 ELSE cattempts
    /\ cpc' = IF reachable THEN "handshake" ELSE "sleep"
    /\ crecv' = <<>>
    /\ csent' = <<>>
    /\ cinvalid' = FALSE
    /\ UNCHANGED <<cdata, cresponse, reachable, notClientVars>>

\* lines 88-91: an exception raised in the handler is caught and the sleep
\* of 5 seconds starts
TunnelExcept ==
    /\ cpc = "raised"
    /\ cpc' = "sleep"
    /\ UNCHANGED <<cdata, cresponse, crecv, csent, reachable, cattempts,
                   cinvalid, notClientVars>>

\* a tunnel_client whose except branch ends the coroutine
TunnelSleepGivesUp ==
    /\ cpc = "sleep"
    /\ cpc' = "stopped"
    /\ UNCHANGED <<cdata, cresponse, crecv, csent, reachable, cattempts,
                   cinvalid, notClientVars>>

\* lines 91 and 79: the sleep ends and the loop takes its next turn
TunnelSleep ==
    /\ cpc = "sleep"
    /\ cpc' = "connect"
    /\ UNCHANGED <<cdata, cresponse, crecv, csent, reachable, cattempts,
                   cinvalid, notClientVars>>

\* lines 83/86 and 79: the handler returned, the connection is closed and
\* the loop takes its next turn without a sleep
TunnelLoop ==
    /\ cpc = "ended"
    /\ cpc' = "connect"
    /\ UNCHANGED <<cdata, cresponse, crecv, csent, reachable, cattempts,
                   cinvalid, notClientVars>>

\* the server or the network goes down, or comes back
ServerChange ==
    /\ reachable' = ~reachable
    /\ UNCHANGED <<cpc, cdata, cresponse, crecv, csent, cattempts, cinvalid,
                   notClientVars>>

TunnelHandshake(msg) == Delivers(msg) /\ ClientHandshake(msg)

TunnelRecv(msg, up) == Delivers(msg) /\ ClientRecv(msg, up)

TunnelSend == ClientSend(reachable)

TunnelNext ==
    \/ TunnelConnect
    \/ TunnelExcept
    \/ TunnelSleep
    \/ TunnelLoop
    \/ ServerChange
    \/ \E msg \in ServerMessages : TunnelHandshake(msg)
    \/ \E msg \in ServerMessages : \E up \in Upstreams : TunnelRecv(msg, up)
    \/ ClientLocal
    \/ TunnelSend

\* the coroutine of the client runs on when it can: a connect attempt
\* ends, the sleep ends, and the first recv() of a connection returns or
\* raises
TunnelFairness ==
    /\ WF_vars(TunnelConnect)
    /\ WF_vars(TunnelExcept)
    /\ WF_vars(TunnelSleep)
    /\ WF_vars(TunnelLoop)
    /\ WF_vars(\E msg \in ServerMessages : TunnelHandshake(msg))

TunnelSpec == TunnelInit /\ [][TunnelNext]_vars /\ TunnelFairness

(* ------------------- http_handler: the tunnelled response -------------- *)
\* the values a response frame can carry (client.py builds the frame from
\* the upstream's response, or with status 500 and no headers on failure)
Statuses == {200, 404, 500}
Bodies == {"", "ok", "Error: refused"}
HeaderSets ==
    {EmptyDict,
     [h \in {"Content-Type"} |-> "text/html"],
     [h \in {"Content-Type", "X-Id"} |-> IF h = "X-Id" THEN "7" ELSE "text/plain"]}

\* a decoded http-response frame with the keys `keys` among status, body and
\* headers
ResponseData(keys, st, bd, hd) ==
    [k \in {"type"} \cup keys |->
        CASE k = "type" -> "http-response"
          [] k = "status" -> st
          [] k = "body" -> bd
          [] k = "headers" -> hd]

ResponseDatas ==
    {ResponseData(keys, st, bd, hd) :
        keys \in SUBSET {"status", "body", "headers"},
        st \in Statuses, bd \in Bodies, hd \in HeaderSets}

\* d.get(k, default)
Get(d, k, default) == IF k \in DOMAIN d THEN d[k] ELSE default

\* a translation that answers 200 whatever the frame says
TunnelResponseOk(data) ==
    [status |-> 200,
     text |-> Get(data, "body", ""),
     headers |-> Get(data, "headers", EmptyDict)]

\* web.Response(status=..., text=..., headers=...) of lines 145-149
TunnelResponse(data) ==
    [status |-> Get(data, "status", 200),
     text |-> Get(data, "body", ""),
     headers |-> Get(data, "headers", EmptyDict)]

\* wait_for has returned the frame set as the result of the future
RespondInit ==
    /\ ServerInit
    /\ ClientIdle
    /\ RenderIdle
    /\ TextIdle
    /\ PortIdle
    /\ StartIdle
    /\ response_data \in ResponseDatas
    /\ response = NoResponse

\* the handler builds the response from the frame and returns it
HttpRespond ==
    /\ response = NoResponse
    /\ response_data # EmptyDict
    /\ response' = TunnelResponse(response_data)
    /\ UNCHANGED <<response_data, notRespondVars>>

RespondNext == HttpRespond

RespondSpec == RespondInit /\ [][RespondNext]_vars

(* ------------------- server_render.py: TunnelManager ------------------- *)
\* MAX_CONNECTIONS (environment, default 100), cut down
MAX_CONNECTIONS == 2
\* calls of create_tunnel that are counted
MaxCounter == 3
\* the length of the prefix client_id[:8], cut down
PrefixLen == 1
\* calls of remove_tunnel for one connection's tunnel_id that are counted
MaxRemovals == 2

\* strings are sequences of pieces; the 'connect' message carries no
\* subdomain (None, or an empty one) or a subdomain of the client's choice,
\* which may be spelled like a generated one
NoSubdomain == <<>>
RequestedSubdomains == {NoSubdomain, <<"app">>, <<"tunnel", 1>>}

\* line 94: the client_id of the message, or "client_<time>" when it has none
DefaultClientId == <<"client_1", "time">>
ClientIds == {DefaultClientId, <<"alice", "a">>, <<"alice", "b">>}

\* f"tunnel{self.counter:03d}"
GeneratedSubdomain(counter) == <<"tunnel", counter>>

\* client_id[:8]
ClientPrefix(client_id) ==
    SubSeq(client_id, 1, IF Len(client_id) < PrefixLen THEN Len(client_id)
                                                        ELSE PrefixLen)

\* f"{subdomain}_{client_id[:8]}"
TunnelId(subdomain, client_id) ==
    subdomain \o <<"_">> \o ClientPrefix(client_id)

\* the dict self.tunnels is the sequence of its items in insertion order;
\* stale stands for a last_activity older than CONNECTION_TIMEOUT, conn for
\* the connection whose handler made the entry
TunnelIds(t) == {t[i].id : i \in DOMAIN t}

IndexOf(t, tunnel_id) == CHOOSE i \in DOMAIN t : t[i].id = tunnel_id

\* self.tunnels[tunnel_id] = {...}: a present key keeps its place
SetItem(t, entry) ==
    IF entry.id \in TunnelIds(t)
      THEN [t EXCEPT ![IndexOf(t, entry.id)] = entry]
      ELSE Append(t, entry)

RECURSIVE DelItem(_, _)
DelItem(t, tunnel_id) ==
    IF t = <<>> THEN <<>>
    ELSE IF Head(t).id = tunnel_id THEN DelItem(Tail(t), tunnel_id)
    ELSE <<Head(t)>> \o DelItem(Tail(t), tunnel_id)

\* a create_tunnel without the limit of MAX_CONNECTIONS
create_tunnel_unlimited(t, counter, client_id, subdomain, c) ==
    LET sub == IF subdomain = NoSubdomain
                 THEN GeneratedSubdomain(counter + 1)
                 ELSE subdomain
        tunnel_id == TunnelId(sub, client_id)
    IN  [tunnels |-> SetItem(t, [id |-> tunnel_id,
                                 client_id |-> client_id,
                                 subdomain |-> sub,
                                 stale |-> FALSE,
                                 conn |-> c]),
         counter |-> counter + 1,
         tunnel_id |-> tunnel_id,
         raised |-> FALSE]

\* create_tunnel(client_id, subdomain): the registry, the counter and the
\* tunnel_id returned, or raised when the registry is full
create_tunnel(t, counter, client_id, subdomain, c) ==
    IF Len(t) >= MAX_CONNECTIONS
      THEN [tunnels |-> t, counter |-> counter, tunnel_id |-> NoTunnel,
            raised |-> TRUE]
      ELSE LET sub == IF subdomain = NoSubdomain
                        THEN GeneratedSubdomain(counter + 1)
                        ELSE subdomain
               tunnel_id == TunnelId(sub, client_id)
           IN  [tunnels |-> SetItem(t, [id |-> tunnel_id,
                                        client_id |-> client_id,
                                        subdomain |-> sub,
                                        stale |-> FALSE,
                                        conn |-> c]),
                counter |-> counter + 1,
                tunnel_id |-> tunnel_id,
                raised |-> FALSE]

\* a remove_tunnel that deletes without looking
remove_tunnel_unguarded(t, tunnel_id) ==
    IF tunnel_id \in TunnelIds(t)
      THEN [tunnels |-> DelItem(t, tunnel_id), raised |-> FALSE]
      ELSE [tunnels |-> t, raised |-> TRUE]

\* remove_tunnel(tunnel_id): the registry afterwards, and whether the call
\* raised
remove_tunnel(t, tunnel_id) ==
    IF tunnel_id \in TunnelIds(t)
      THEN [tunnels |-> DelItem(t, tunnel_id), raised |-> FALSE]
      ELSE [tunnels |-> t, raised |-> FALSE]

\* get_tunnel(subdomain): the first item with that subdomain, or (None, None)
get_tunnel(t, subdomain) ==
    IF \E i \in DOMAIN t : t[i].subdomain = subdomain
      THEN LET i == CHOOSE j \in DOMAIN t :
                        /\ t[j].subdomain = subdomain
                        /\ \A k \in 1..(j - 1) : t[k].subdomain # subdomain
           IN  <<t[i].id, t[i]>>
      ELSE <<NoTunnel, NoTunnel>>

RenderInit ==
    /\ ServerInit
    /\ RespondIdle
    /\ ClientIdle
    /\ TextIdle
    /\ PortIdle
    /\ StartIdle
    /\ rtunnels = <<>>
    /\ rcounter = 0
    /\ rpc = [c \in Conns |-> "off"]
    /\ rtid = [c \in Conns |-> NoTunnel]
    /\ rremovals = [c \in Conns |-> 0]
    /\ rreply = [c \in Conns |-> "none"]

\* lines 76-80: a WebSocket connection is accepted
RenderOpen(c) ==
    /\ rpc[c] = "off"
    /\ rpc' = [rpc EXCEPT ![c] = "open"]
    /\ UNCHANGED <<rtunnels, rcounter, rtid, rremovals, rreply, notRenderVars>>

\* lines 91-111: a 'connect' message; a full registry is answered with an
\* error frame
RenderConnect(c, subdomain, client_id) ==
    /\ rpc[c] = "open"
    /\ rcounter < MaxCounter
    /\ LET r == create_tunnel(rtunnels, rcounter, client_id, subdomain, c)
       IN  /\ rtunnels' = r.tunnels
           /\ rcounter' = r.counter
           /\ rtid' = IF r.raised THEN rtid
                                  ELSE [rtid EXCEPT ![c] = r.tunnel_id]
           /\ rremovals' = IF r.raised THEN rremovals
                                       ELSE [rremovals EXCEPT ![c] = 0]
           /\ rreply' = [rreply EXCEPT
                            ![c] = IF r.raised THEN "error" ELSE "connected"]
    /\ UNCHANGED <<rpc, notRenderVars>>

\* lines 135-140: the finally block of the handler
RenderFinally(c, t) ==
    LET r == IF rtid[c] # NoTunnel THEN remove_tunnel(t, rtid[c])
                                   ELSE [tunnels |-> t, raised |-> FALSE]
    IN  /\ rtunnels' = r.tunnels
        /\ rpc' = [rpc EXCEPT ![c] = IF r.raised THEN "crashed" ELSE "closed"]
        /\ rreply' = [rreply EXCEPT ![c] = "none"]

\* the count of remove_tunnel calls for the connection's tunnel_id
Removals(c, n) ==
    IF rtid[c] = NoTunnel THEN rremovals
    ELSE [rremovals EXCEPT ![c] = IF @ + n > MaxRemovals THEN MaxRemovals
                                                         ELSE @ + n]

\* lines 113-117: a 'heartbeat' message; the entry of a tunnel_id that is
\* gone raises KeyError, which ends the handler through its finally block
RenderHeartbeat(c) ==
    /\ rpc[c] = "open"
    /\ rtid[c] # NoTunnel
    /\ IF rtid[c] \in TunnelIds(rtunnels)
         THEN /\ rtunnels' = [rtunnels EXCEPT
                                 ![IndexOf(rtunnels, rtid[c])].stale = FALSE]
              /\ rreply' = [rreply EXCEPT ![c] = "heartbeat_ack"]
              /\ UNCHANGED <<rpc, rremovals>>
         ELSE /\ RenderFinally(c, rtunnels)
              /\ rremovals' = Removals(c, 1)
    /\ UNCHANGED <<rcounter, rtid, notRenderVars>>

\* lines 119-123 and 135-140: a 'disconnect' message removes the tunnel
\* and breaks, and the finally block removes it again
RenderDisconnect(c) ==
    /\ rpc[c] = "open"
    /\ LET r == IF rtid[c] # NoTunnel
                  THEN remove_tunnel(rtunnels, rtid[c])
                  ELSE [tunnels |-> rtunnels, raised |-> FALSE]
       IN  IF r.raised
             THEN /\ rtunnels' = r.tunnels
                  /\ rpc' = [rpc EXCEPT ![c] = "crashed"]
                  /\ rreply' = [rreply EXCEPT ![c] = "none"]
                  /\ rremovals' = Removals(c, 1)
             ELSE /\ RenderFinally(c, r.tunnels)
                  /\ rremovals' = Removals(c, 2)
    /\ UNCHANGED <<rcounter, rtid, notRenderVars>>

\* lines 128-140: the connection ends (closed by the client, an error
\* message, or a send that fails) and the finally block runs
RenderClose(c) ==
    /\ rpc[c] = "open"
    /\ RenderFinally(c, rtunnels)
    /\ rremovals' = Removals(c, 1)
    /\ UNCHANGED <<rcounter, rtid, notRenderVars>>

\* time passes: the last_activity of an entry gets older than
\* CONNECTION_TIMEOUT
RenderAge(i) ==
    /\ i \in DOMAIN rtunnels
    /\ ~rtunnels[i].stale
    /\ rtunnels' = [rtunnels EXCEPT ![i].stale = TRUE]
    /\ UNCHANGED <<rcounter, rpc, rtid, rremovals, rreply, notRenderVars>>

RECURSIVE RemoveAll(_, _)
RemoveAll(t, ids) ==
    IF ids = {} THEN t
    ELSE LET tunnel_id == CHOOSE x \in ids : TRUE
         IN  RemoveAll(remove_tunnel(t, tunnel_id).tunnels, ids \ {tunnel_id})

\* lines 199-219: one turn of cleanup_old_tunnels
cleanup_old_tunnels ==
    /\ \E i \in DOMAIN rtunnels : rtunnels[i].stale
    /\ rtunnels' = RemoveAll(rtunnels,
                       {rtunnels[i].id : i \in {j \in DOMAIN rtunnels :
                                                   rtunnels[j].stale}})
    /\ UNCHANGED <<rcounter, rpc, rtid, rremovals, rreply, notRenderVars>>

RenderNext ==
    \/ \E c \in Conns : RenderOpen(c)
    \/ \E c \in Conns : \E subdomain \in RequestedSubdomains :
           \E client_id \in ClientIds : RenderConnect(c, subdomain, client_id)
    \/ \E c \in Conns : RenderHeartbeat(c)
    \/ \E c \in Conns : RenderDisconnect(c)
    \/ \E c \in Conns : RenderClose(c)
    \/ \E i \in 1..MAX_CONNECTIONS : RenderAge(i)
    \/ cleanup_old_tunnels

RenderSpec == RenderInit /\ [][RenderNext]_vars

(* ------------- server.py: subdomains and Host headers as text ---------- *)
\* range(8) of generate_subdomain
SubdomainLength == 8
\* calls of generate_subdomain in one run
MaxCalls == 2

\* string.ascii_lowercase + string.digits
letters ==
    {"a", "b", "c", "d", "e", "f", "g", "h", "i", "j", "k", "l", "m", "n",
     "o", "p", "q", "r", "s", "t", "u", "v", "w", "x", "y", "z",
     "0", "1", "2", "3", "4", "5", "6", "7", "8", "9"}

\* a random.choice that can also return an upper-case letter
ChoicesWithUpper == {"a", "7", "A"}

\* the values random.choice(letters) takes here, cut down to a letter and a
\* digit
Choices == {"a", "7"}

\* the text 'default' of line 104
DefaultText == <<"d", "e", "f", "a", "u", "l", "t">>

\* '.' in host
HasDot(host) == \E i \in DOMAIN host : host[i] = "."

\* host.split('.')[0], character by character
RECURSIVE FirstLabel(_)
FirstLabel(host) ==
    IF host = <<>> THEN <<>>
    ELSE IF Head(host) = "." THEN <<>>
    ELSE <<Head(host)>> \o FirstLabel(Tail(host))

\* a handler that has no 'default': a host without '.' is its own label
HostSubdomainNoDefault(host) == FirstLabel(host)

\* line 104
HostSubdomain(host) == IF HasDot(host) THEN FirstLabel(host) ELSE DefaultText

\* lines 103-139: the routing decision against the registered subdomains;
\* found stands for what follows line 119, a pending request and a frame
\* sent to the tunnel, and status 0 for a response still to come
Route(method, path, host, registered) ==
    LET subdomain == HostSubdomain(host)
    IN  IF subdomain \notin registered
          THEN [handler |-> "http_handler", method |-> method, path |-> path,
                host |-> host, subdomain |-> subdomain, status |-> 404,
                found |-> FALSE, text |-> <<"Tunnel", "not found">>,
                active |-> Cardinality(registered)]
          ELSE [handler |-> "http_handler", method |-> method, path |-> path,
                host |-> host, subdomain |-> subdomain, status |-> 0,
                found |-> TRUE, text |-> <<>>,
                active |-> Cardinality(registered)]

\* lines 162-164; active is the number of sessions registered when the
\* request is served, which the handler does not look at
health_handler(method, path, host, registered) ==
    [handler |-> "health_handler", method |-> method, path |-> path,
     host |-> host, subdomain |-> <<>>, status |-> 200, found |-> FALSE,
     text |-> <<"OK">>, active |-> Cardinality(registered)]

Methods == {"GET", "HEAD", "POST"}
Paths == {"/", "/health"}

\* lines 223-235: add_get routes GET, and HEAD with it, of /health to
\* health_handler; every other method and path reaches http_handler
Dispatch(method, path, host, registered) ==
    IF path = "/health" /\ method \in {"GET", "HEAD"}
      THEN health_handler(method, path, host, registered)
      ELSE Route(method, path, host, registered)

\* the Host headers tried: a registered subdomain, one character less of
\* it, 'default' or nothing, alone or followed by further labels or a port
HostEndings ==
    {<<>>, <<".">>, <<".", "x">>, <<".", "x", ".", "y">>, <<":", "8">>}

HostTexts ==
    {first \o ending :
        first \in {greturned[i] : i \in DOMAIN greturned}
                    \cup {Tail(greturned[i]) : i \in DOMAIN greturned}
                    \cup {DefaultText, <<>>},
        ending \in HostEndings}

TextInit ==
    /\ ServerInit
    /\ RespondIdle
    /\ ClientIdle
    /\ RenderIdle
    /\ PortIdle
    /\ StartIdle
    /\ gpc = "call"
    /\ gsub = <<>>
    /\ greturned = <<>>
    /\ groute = NoRoute

\* generate_subdomain is called
GenCall ==
    /\ gpc = "call"
    /\ groute = NoRoute
    /\ Len(greturned) < MaxCalls
    /\ gpc' = "join"
    /\ gsub' = <<>>
    /\ UNCHANGED <<greturned, groute, notTextVars>>

\* line 42: one turn of the generator, random.choice(letters)
GenChar(ch) ==
    /\ gpc = "join"
    /\ Len(gsub) < SubdomainLength
    /\ gsub' = Append(gsub, ch)
    /\ UNCHANGED <<gpc, greturned, groute, notTextVars>>

\* line 42: range(8) is used up and the joined text is returned
GenReturn ==
    /\ gpc = "join"
    /\ Len(gsub) = SubdomainLength
    /\ greturned' = Append(greturned, gsub)
    /\ gsub' = <<>>
    /\ gpc' = "call"
    /\ UNCHANGED <<groute, notTextVars>>

\* one request to the HTTP listener, with the subdomains returned so far
\* registered or not any more
HttpRoute(method, path, host, registered) ==
    /\ gpc = "call"
    /\ groute = NoRoute
    /\ Len(greturned) = 1
    /\ groute' = Dispatch(method, path, host, registered)
    /\ UNCHANGED <<gpc, gsub, greturned, notTextVars>>

TextNext ==
    \/ GenCall
    \/ \E ch \in Choices : GenChar(ch)
    \/ GenReturn
    \/ \E method \in Methods : \E path \in Paths : \E host \in HostTexts :
           \E registered \in SUBSET {greturned[i] : i \in DOMAIN greturned} :
               HttpRoute(method, path, host, registered)

TextSpec == TextInit /\ [][TextNext]_vars

(* --------------------- server.py: find_available_port ------------------ *)
\* the port numbers looked at
NumPorts == 4
Ports == 1..NumPorts

\* a range that leaves out max_port
PortRangeExclusive(start_port, max_port) == start_port..(max_port - 1)

\* range(start_port, max_port + 1)
PortRange(start_port, max_port) == start_port..max_port

\* the call is made with some range, empty ones included, while some of the
\* ports cannot be bound
PortInit ==
    /\ ServerInit
    /\ RespondIdle
    /\ ClientIdle
    /\ RenderIdle
    /\ TextIdle
    /\ StartIdle
    /\ ppc = "for"
    /\ pstart \in Ports
    /\ pmax \in Ports
    /\ pbusy \in SUBSET Ports
    /\ pport = pstart

\* lines 46-52: one turn of the loop; bind succeeds and the port is
\* returned, or bind raises OSError and the loop continues
PortTry ==
    /\ ppc = "for"
    /\ pport \in PortRange(pstart, pmax)
    /\ IF pport \in pbusy
         THEN pport' = pport + 1 /\ UNCHANGED ppc
         ELSE ppc' = "returned" /\ UNCHANGED pport
    /\ UNCHANGED <<pstart, pmax, pbusy, notPortVars>>

\* line 53: the range is used up
PortRaise ==
    /\ ppc = "for"
    /\ pport \notin PortRange(pstart, pmax)
    /\ ppc' = "raised"
    /\ UNCHANGED <<pstart, pmax, pbusy, pport, notPortVars>>

PortNext == PortTry \/ PortRaise

PortSpec == PortInit /\ [][PortNext]_vars

(* ------------------------- server.py: start_server --------------------- *)
UseSslArgs == {"None", "True", "False"}

\* what start_server meets: the USE_SSL of the environment, whether the
\* certificate directory can be made, whether the certificates load, and
\* whether the two ports can be bound
Environments ==
    [USE_SSL : BOOLEAN, certs : BOOLEAN, cert_dir : BOOLEAN,
     ws_port : BOOLEAN, http_port : BOOLEAN]

StartInit ==
    /\ ServerInit
    /\ RespondIdle
    /\ ClientIdle
    /\ RenderIdle
    /\ TextIdle
    /\ PortIdle
    /\ spc = "manager"
    /\ senv \in Environments
    /\ \E use_ssl \in UseSslArgs :
           suse_ssl = IF use_ssl = "None" THEN senv.USE_SSL
                                         ELSE use_ssl = "True"
    /\ sssl_context = "None"
    /\ sraised = FALSE
    /\ sws = "none"
    /\ shttp = "none"

\* lines 181-185: CertificateManager() makes the certificate directory,
\* outside any try
StartManager ==
    /\ spc = "manager"
    /\ spc' = IF senv.cert_dir THEN "context" ELSE "failed"
    /\ UNCHANGED <<senv, suse_ssl, sssl_context, sraised, sws, shttp,
                   notStartVars>>

\* an except branch that lets the failure end start_server
FallbackNone(use_ssl) == [pc |-> "failed", use_ssl |-> use_ssl]

\* lines 197-200: the except branch of the SSL context
Fallback(use_ssl) == [pc |-> "ws", use_ssl |-> FALSE]

\* lines 188-200
StartContext ==
    /\ spc = "context"
    /\ IF suse_ssl
         THEN IF senv.certs
                THEN /\ sssl_context' = "context"
                     /\ spc' = "ws"
                     /\ UNCHANGED <<suse_ssl, sraised>>
                ELSE /\ sraised' = TRUE
                     /\ spc' = Fallback(suse_ssl).pc
                     /\ suse_ssl' = Fallback(suse_ssl).use_ssl
                     /\ UNCHANGED sssl_context
         ELSE /\ spc' = "ws"
              /\ UNCHANGED <<suse_ssl, sssl_context, sraised>>
    /\ UNCHANGED <<senv, sws, shttp, notStartVars>>

\* the test of lines 203 and 237
Secured == IF suse_ssl /\ sssl_context # "None" THEN "ssl" ELSE "plain"

\* lines 203-219: the WebSocket listener
StartWs ==
    /\ spc = "ws"
    /\ IF senv.ws_port
         THEN sws' = Secured /\ spc' = "http"
         ELSE spc' = "failed" /\ UNCHANGED sws
    /\ UNCHANGED <<senv, suse_ssl, sssl_context, sraised, shttp, notStartVars>>

\* lines 222-250: the HTTP listener
StartHttp ==
    /\ spc = "http"
    /\ IF senv.http_port
         THEN shttp' = Secured /\ spc' = "running"
         ELSE spc' = "failed" /\ UNCHANGED shttp
    /\ UNCHANGED <<senv, suse_ssl, sssl_context, sraised, sws, notStartVars>>

StartNext == StartManager \/ StartContext \/ StartWs \/ StartHttp

StartSpec == StartInit /\ [][StartNext]_vars

(* ---------------------------- specification ---------------------------- *)
Init ==
    /\ ServerInit
    /\ RespondIdle
    /\ ClientIdle
    /\ RenderIdle
    /\ TextIdle
    /\ PortIdle
    /\ StartIdle

Next ==
    \/ \E c \in Conns : WsConnect(c)
    \/ \E c \in Conns : WsRegenerate(c)
    \/ \E c \in Conns : WsRegister(c)
    \/ \E c \in Conns : Disconnect(c)
    \/ \E c \in Conns : WsAnnounce(c)
    \/ \E c \in Conns : \E frame \in Frames : WsReceive(c, frame)
    \/ \E c \in Conns : \E how \in LoopEnds : WsLoopExit(c, how)
    \/ \E r \in Reqs : \E host \in Hosts : HttpStart(r, host)
    \/ \E r \in Reqs : HttpSend(r)
    \/ \E r \in Reqs : Timeout(r)
    \/ \E r \in Reqs : HttpResume(r)

Spec == Init /\ [][Next]_vars

\* the sessions alone, with the passing of time: http_handler records no
\* activity and plays no part in how long a session has been silent
IdleNext ==
    \/ \E c \in Conns : WsConnect(c)
    \/ \E c \in Conns : WsRegenerate(c)
    \/ \E c \in Conns : WsRegister(c)
    \/ \E c \in Conns : Disconnect(c)
    \/ \E c \in Conns : WsAnnounce(c)
    \/ \E c \in Conns : \E frame \in Frames : WsReceive(c, frame)
    \/ \E c \in Conns : \E how \in LoopEnds : WsLoopExit(c, how)
    \/ \E c \in Conns : Tick(c)

IdleSpec == Init /\ [][IdleNext]_vars

\* the scheduling of the event loop: a coroutine that can run does run, the
\* timer of wait_for fires, and the random generator does not return taken
\* labels for ever
Fairness ==
    /\ \A c \in Conns : WF_vars(WsRegister(c))
    /\ \A c \in Conns : WF_vars(WsRegenerate(c) /\ ~Collides(wsub'[c]))
    /\ \A r \in Reqs : WF_vars(HttpSend(r))
    /\ \A r \in Reqs : WF_vars(Timeout(r))
    /\ \A r \in Reqs : WF_vars(HttpResume(r))

FairSpec == Init /\ [][Next]_vars /\ Fairness

(* ------------------------------- claims -------------------------------- *)
\* the handler of c is between registration and teardown
Live(c) == wpc[c] \in {"announce", "loop"}

Resolved(f) == f.state \in {"done", "cancelled"}

\* r waits for the future stored under its own request_id
Waiting(r) == hpc[r] \in {"body", "wait"}

\* C1: two live control connections never hold the same subdomain, and the
\* tunnels and subdomains entries of a live connection are its own: no
\* registration has overwritten them.
C1_UniqueSubdomain ==
    /\ \A c1, c2 \in Conns :
         (c1 # c2 /\ Live(c1) /\ Live(c2)) => wsub[c1] # wsub[c2]
    /\ \A c \in Conns :
         Live(c) => /\ wsub[c] \in DOMAIN tunnels /\ tunnels[wsub[c]] = c
                    /\ wsub[c] \in DOMAIN subdomains /\ subdomains[wsub[c]] = c

\* two connections are registered and live at the same time
C1_Witness ==
    \E c1, c2 \in Conns : c1 # c2 /\ Live(c1) /\ Live(c2)

\* C2: a future that is resolved (by a response or by the timeout) never
\* changes again, whatever frame arrives later, and no frame ends the read
\* loop: the loop is left only when the transport is down.
C2_ResolvedOnce ==
    [][/\ \A r \in Reqs : Resolved(fut[r]) => fut'[r] = fut[r]
       /\ \A c \in Conns :
            (wpc[c] = "loop" /\ wpc'[c] # "loop") => link[c] = "down"]_vars

\* a resolved future is still in the table of a session whose read loop
\* runs, with its handler not yet woken: the next frame with its request_id
\* reaches set_result again
C2_Witness ==
    \E r \in Reqs :
        /\ hpc[r] = "wait"
        /\ Resolved(fut[r])
        /\ HasPending(pending_responses, hsub[r], hrid[r])
        /\ pending_responses[hsub[r]][hrid[r]] = r
        /\ wpc[hws[r]] = "loop"
        /\ link[hws[r]] = "open"
        /\ ResponseFrame(hrid[r], r) \in ClientFrames(hws[r])

\* C3: an invocation that returns a tunnelled response returns the response
\* the client produced for the request frame of that very invocation.
C3_OwnResponse ==
    \A r \in Reqs : hstatus[r] = 200 => fut[r].result = r

\* C4: the request_id of a request that starts is not the request_id under
\* which another request, still waiting on the same subdomain, has its future
\* in pending_responses.
C4_FreshRequestId ==
    [][\A r \in Reqs :
         (hpc[r] = "new" /\ hpc'[r] = "body") =>
            ~ \E q \in Reqs \ {r} :
                 /\ Waiting(q)
                 /\ hsub[q] = hsub'[r]
                 /\ hrid[q] = hrid'[r]
                 /\ HasPending(pending_responses, hsub[q], hrid[q])
                 /\ pending_responses[hsub[q]][hrid[q]] = q]_vars

\* C5: once the teardown of a session has run, no request sent on that session
\* is left waiting on a future that nobody resolved.
C5_TeardownResolves ==
    \A r \in Reqs :
        (hpc[r] = "wait" /\ wpc[hws[r]] = "exited" /\ teardowns[hws[r]] = 1)
            => Resolved(fut[r])

\* C6: a handler that has exited has run its teardown exactly once, no entry
\* of tunnels or subdomains names its connection, and pending_responses has
\* keys of registered subdomains only.
C6_TeardownOnExit ==
    \A c \in Conns :
        wpc[c] = "exited" =>
            /\ teardowns[c] = 1
            /\ \A l \in DOMAIN tunnels : tunnels[l] # c
            /\ \A l \in DOMAIN subdomains : subdomains[l] # c
            /\ \A l \in DOMAIN pending_responses :
                 l \in DOMAIN tunnels /\ tunnels[l] # c

C8_TimeoutCleansUp ==
    [][\A r \in Reqs :
         (hpc[r] = "wait" /\ fut[r].state = "cancelled" /\ hpc'[r] = "done") =>
            /\ hstatus'[r] = 504
            /\ ~HasPending(pending_responses', hsub[r], hrid[r])]_vars

\* a request has timed out and was answered 504
C8_Witness ==
    \E r \in Reqs : hpc[r] = "done" /\ hstatus[r] = 504 /\ fut[r].state = "cancelled"

\* C9: a request for a subdomain that is not in tunnels is answered 404 in the
\* same step; pending_responses, the futures, the registry and the frames
\* sent on every connection stay as they were.
C9_NotFound ==
    [][\A r \in Reqs : \A host \in Hosts :
         (HttpStart(r, host) /\ HostLabel(host) \notin DOMAIN tunnels) =>
            /\ hpc'[r] = "done"
            /\ hstatus'[r] = 404
            /\ UNCHANGED <<pending_responses, fut, registry, sent>>]_vars

\* a request was answered 404 while a session is registered and has a
\* pending request
C9_Witness ==
    \E r \in Reqs :
        /\ hstatus[r] = 404
        /\ DOMAIN tunnels # {}
        /\ DOMAIN pending_responses # {}

\* C10: a response frame without request_id, or with a request_id under which
\* the session has no pending future, changes neither pending_responses nor
\* tunnels nor subdomains nor any future.
C10_UnknownResponseDropped ==
    [][\A c \in Conns : \A frame \in Frames :
         (/\ WsReceive(c, frame)
          /\ frame.type = "http-response"
          /\ ~HasPending(pending_responses, wsub[c], frame.request_id)) =>
            UNCHANGED <<pending_responses, registry, fut>>]_vars

\* C11: a response frame for a request that has already timed out is a
\* no-op: the read loop goes on, pending_responses and every future stay as
\* they were, and no HTTP response is produced or changed by it.
C11_LateResponseNoOp ==
    [][\A c \in Conns : \A r \in Reqs : \A id \in RequestIds :
         (WsReceive(c, ResponseFrame(id, r)) /\ fut[r].state = "cancelled") =>
            UNCHANGED <<pending_responses, fut, wpc, hpc, hstatus>>]_vars

\* C12: a request whose session has died before a response resolved its future
\* (also before the request frame could be sent) is answered 502 or 504 and
\* with no other status.
C12_SessionDeath502or504 ==
    [][\A r \in Reqs :
         (/\ Waiting(r)
          /\ hpc'[r] = "done"
          /\ link[hws[r]] # "open"
          /\ fut[r].state # "done") => hstatus'[r] \in {502, 504}]_vars

\* the places (connection, position) of the request frames sent for r
SentFor(r) ==
    UNION {{<<c, i>> : i \in {j \in 1..Len(sent[c]) :
                                /\ sent[c][j].type = "http-request"
                                /\ sent[c][j].origin = r}} : c \in Conns}

C14_ResponseVerbatim ==
    response # NoResponse =>
        /\ "status" \in DOMAIN response_data =>
              response.status = response_data["status"]
        /\ "headers" \in DOMAIN response_data =>
              response.headers = response_data["headers"]
        /\ "body" \in DOMAIN response_data =>
              response.text = response_data["body"]

\* a frame with a status other than 200, a body and headers was translated
C14_Witness ==
    /\ response # NoResponse
    /\ DOMAIN response_data = {"type", "status", "body", "headers"}
    /\ response_data["status"] = 404
    /\ response_data["body"] = "ok"
    /\ DOMAIN response_data["headers"] = {"Content-Type", "X-Id"}

\* C15: a malformed frame (text that is not JSON, JSON that is not an object,
\* an object of unknown type) is dropped: the read loop goes on, the session
\* stays in tunnels and subdomains, and pending_responses and the futures stay
\* as they were.
C15_MalformedDropped ==
    [][\A c \in Conns : \A frame \in MalformedFrames :
         WsReceive(c, frame) =>
            /\ wpc'[c] = "loop"
            /\ link'[c] = "open"
            /\ UNCHANGED <<registry, pending_responses, fut, teardowns>>]_vars

\* a session with a request waiting on it is reading: the next message may be
\* any malformed frame
C15_Witness ==
    \E c \in Conns : \E r \in Reqs :
        /\ wpc[c] = "loop"
        /\ link[c] = "open"
        /\ hpc[r] = "wait"
        /\ hws[r] = c
        /\ fut[r].state = "pending"
        /\ MalformedFrames \subseteq ClientFrames(c)
        /\ \A frame \in MalformedFrames : ENABLED WsReceive(c, frame)

\* the dicts d and e agree on every key but k
SameExcept(d, e, k) ==
    /\ DOMAIN d \ {k} = DOMAIN e \ {k}
    /\ \A x \in DOMAIN d \ {k} : d[x] = e[x]

\* C16: when the connection of one session goes down or its handler is left,
\* the entries of every other subdomain in tunnels, subdomains and
\* pending_responses, every future, every request in flight and every other
\* handler stay as they were.
C16_OtherSessionsUnchanged ==
    [][\A c \in Conns :
         (Live(c) /\ (wpc'[c] = "exited" \/ link'[c] # link[c])) =>
            /\ SameExcept(tunnels, tunnels', wsub[c])
            /\ SameExcept(subdomains, subdomains', wsub[c])
            /\ SameExcept(pending_responses, pending_responses', wsub[c])
            /\ UNCHANGED <<fut, httpVars, sent, running>>
            /\ \A d \in Conns \ {c} :
                 /\ wpc'[d] = wpc[d]
                 /\ wsub'[d] = wsub[d]
                 /\ link'[d] = link[d]
                 /\ teardowns'[d] = teardowns[d]]_vars

\* one session has been torn down while another is registered with a request
\* waiting on it
C16_Witness ==
    \E c, d \in Conns : \E r \in Reqs :
        /\ c # d
        /\ wpc[c] = "exited"
        /\ teardowns[c] = 1
        /\ Live(d)
        /\ tunnels[wsub[d]] = d
        /\ hpc[r] = "wait"
        /\ hws[r] = d
        /\ HasPending(pending_responses, hsub[r], hrid[r])

\* C17: a subdomain is in tunnels only after its announcement: the subdomain
\* message is the first frame sent on the connection registered under it, and
\* no request frame is sent on a connection before that message.
C17_AnnouncedBeforeRoutable ==
    /\ \A l \in DOMAIN tunnels :
         /\ sent[tunnels[l]] # <<>>
         /\ sent[tunnels[l]][1] = SubdomainFrame(l)
    /\ \A c \in Conns : \A i \in 1..Len(sent[c]) :
         sent[c][i].type = "http-request" =>
            (i > 1 /\ sent[c][1].type = "subdomain")

\* C18: the generation loop regenerates a bounded number of times: it never
\* reaches its MaxRetries-th turn, whatever MaxRetries is chosen.
C18_BoundedRetries ==
    \A c \in Conns : retries[c] < MaxRetries

\* C19: a session whose client is silent while the transport stays open is
\* closed by the idle timeout: no handler is still reading an open connection
\* that has been silent for longer than IdleTimeout.
C19_IdleSessionClosed ==
    \A c \in Conns :
        (wpc[c] = "loop" /\ link[c] = "open") => idle[c] <= IdleTimeout

\* resp is the response frame owed to the received request frame rq
Answers(resp, rq) ==
    /\ resp.type = "http-response"
    /\ resp.request_id = rq.request_id
    /\ IF rq.up.ok
         THEN /\ resp.status = rq.up.status
              /\ resp.headers = rq.up.headers
              /\ resp.body = rq.up.body
         ELSE resp.status = 500

\* C20: whenever the client waits for the next message of its connection,
\* every request frame it has received on it has got exactly one response
\* frame, in the order of arrival, with the frame's request_id and with the
\* upstream's status, headers and body, or status 500 when the local call
\* failed.
C20_EveryRequestAnswered ==
    cpc = "recv" =>
        /\ Len(csent) = Len(crecv)
        /\ \A i \in 1..Len(csent) : Answers(csent[i], crecv[i])


\* the client holds a registered session: its handshake is done and the
\* handler is in its loop
Registered == cpc \in {"recv", "local", "send"}

\* C21: tunnel_client never gives up: after a failed connection attempt and
\* after a lost connection it attempts to connect again (a failure is
\* followed by the sleep), and if the server stays reachable from some
\* time on the client holds a registered session again and again
C21_NeverGivesUp ==
    /\ [](cpc \in {"sleep", "raised", "ended"} => <>(cpc = "connect"))
    /\ [][(cpc \in {"connect", "raised"} /\ cpc' # cpc /\ cpc' # "handshake")
             => cpc' = "sleep"]_vars
    /\ (<>[]reachable) => []<>Registered

\* a session registered by a later attempt, after an earlier one was made
C21_Witness == Registered /\ cattempts >= 2


\* the dicts server.py can hold under the bounds, and the tunnel_ids
\* server_render.py can form
SmallDicts == UNION {[S -> Conns] : S \in SUBSET Labels}

AllTunnelIds ==
    {TunnelId(s, client_id) :
        s \in (RequestedSubdomains \ {NoSubdomain})
                \cup {GeneratedSubdomain(n) : n \in 1..MaxCounter},
        client_id \in ClientIds}

\* C22: unregistering is idempotent: removing a subdomain (server.py) or a
\* tunnel_id (remove_tunnel) that is absent raises nothing and leaves the
\* registry as it was, and removing twice gives what removing once gives
C22_IdempotentUnregister ==
    /\ \A d \in SmallDicts : \A k \in Labels :
           /\ k \notin DOMAIN d => Pop(d, k) = d
           /\ Pop(Pop(d, k), k) = Pop(d, k)
    /\ \A tunnel_id \in AllTunnelIds :
           LET once == remove_tunnel(rtunnels, tunnel_id)
               twice == remove_tunnel(once.tunnels, tunnel_id)
           IN  /\ ~once.raised
               /\ ~twice.raised
               /\ twice.tunnels = once.tunnels
               /\ tunnel_id \notin TunnelIds(rtunnels)
                     => once.tunnels = rtunnels
    /\ \A c \in Conns : rpc[c] # "crashed"

\* a handler that removed its tunnel_id twice and ended normally, next to
\* another connection's tunnel that is still registered
C22_Witness ==
    \E c \in Conns :
        /\ rremovals[c] = 2
        /\ rpc[c] = "closed"
        /\ rtunnels # <<>>


\* C23: http_handler routes by the text before the first '.' of the Host
\* header; a Host without '.' is routed to 'default', which no generated
\* subdomain equals, so the request is answered 404
C23_HostRouting ==
    /\ \A i \in DOMAIN greturned : greturned[i] # DefaultText
    /\ groute.handler = "http_handler" =>
         LET host == groute.host
             dots == {i \in DOMAIN host : host[i] = "."}
         IN  /\ dots # {} =>
                   \E i \in dots :
                       /\ \A j \in dots : i <= j
                       /\ groute.subdomain = SubSeq(host, 1, i - 1)
             /\ dots = {} =>
                   /\ groute.subdomain = DefaultText
                   /\ groute.status = 404
                   /\ ~groute.found
             /\ groute.found => groute.subdomain = greturned[1]
             /\ groute.found <=> groute.status # 404

\* a Host that spells a registered subdomain without any '.', answered 404
C23_Witness ==
    /\ groute.handler = "http_handler"
    /\ groute.host = greturned[1]
    /\ groute.status = 404


\* C24: a request to /health, with any method and any Host, is answered
\* 200 whatever the registry holds, creates no pending request and sends
\* no frame, and its body reports the number of active sessions
C24_HealthBypassesRouting ==
    groute.path = "/health" =>
        /\ groute.status = 200
        /\ ~groute.found
        /\ \E i \in DOMAIN groute.text :
               groute.text[i] = ToString(groute.active)


\* the request frames received inside the loop of the handler
LoopRequests == SelectSeq(crecv, LAMBDA rq : rq.inLoop)

\* C25: text that is not JSON, received after the subdomain assignment, is
\* discarded: the client stays in its loop with nothing received or sent
\* for it, and the request frames of the loop go on being answered
C25_InvalidJsonDiscarded ==
    /\ [][(~cinvalid /\ cinvalid')
             => (cpc' = "recv" /\ UNCHANGED <<crecv, csent>>)]_vars
    /\ []((cinvalid /\ cpc = "recv") =>
             /\ Len(csent) = Len(LoopRequests)
             /\ \A i \in 1..Len(csent) : Answers(csent[i], LoopRequests[i]))

\* a request frame served after text that is not JSON was discarded
C25_Witness ==
    /\ cinvalid
    /\ cpc = "send"
    /\ cresponse.status = 200


\* C26: successive calls of generate_subdomain return pairwise distinct
\* labels
C26_PairwiseDistinct ==
    \A i, j \in DOMAIN greturned : i # j => greturned[i] # greturned[j]

\* C27: every label generate_subdomain returns is exactly 8 characters
\* long, each of them a lower-case ASCII letter or a digit, 36 symbols in all
C27_EightOfThirtySix ==
    /\ Cardinality(letters) = 36
    /\ \A i \in DOMAIN greturned :
           /\ Len(greturned[i]) = 8
           /\ \A k \in DOMAIN greturned[i] : greturned[i][k] \in letters

\* a label returned that holds a letter and a digit
C27_Witness ==
    \E i \in DOMAIN greturned :
        \E k, m \in DOMAIN greturned[i] :
            greturned[i][k] = "a" /\ greturned[i][m] = "7"


\* C28: find_available_port returns the lowest port of
\* [start_port, max_port] on which bind succeeds, trying the ports in
\* ascending order, and raises OSError exactly when bind fails on every
\* port of the range
C28_LowestBindablePort ==
    /\ [](ppc = "returned" =>
             /\ pport \in pstart..pmax
             /\ pport \notin pbusy
             /\ \A q \in pstart..pmax : q \notin pbusy => pport <= q)
    /\ [](ppc = "raised" <=>
             (ppc \notin {"for", "off"} /\ \A q \in pstart..pmax : q \in pbusy))
    /\ [][(ppc = "for" /\ ppc' = "for") => pport' = pport + 1]_vars

\* the port returned after bind failed on lower ports of the range
C28_Witness ==
    /\ ppc = "returned"
    /\ pport > pstart
    /\ pport = pmax

\* C29: when start_server is to use SSL and creating the SSL context
\* fails, start_server does not fail for it: both listeners are started
\* without an SSL context; and never is one listener secured and the other
\* not
C29_SslFallback ==
    /\ [][(spc = "context" /\ spc' # spc) => spc' = "ws"]_vars
    /\ [](sraised =>
             /\ sws \in {"none", "plain"}
             /\ shttp \in {"none", "plain"}
             /\ spc = "failed" => (~senv.ws_port \/ ~senv.http_port))
    /\ []((sws # "none" /\ shttp # "none") => sws = shttp)

\* both listeners started plain after create_ssl_context raised
C29_Witness ==
    /\ sraised
    /\ spc = "running"
    /\ sws = "plain"
    /\ shttp = "plain"


\* C30: in server_render.py no two entries of the tunnel registry carry
\* the same subdomain, so get_tunnel(subdomain) can designate one client
\* only
C30_RenderUniqueSubdomain ==
    \A i, j \in DOMAIN rtunnels :
        i # j => rtunnels[i].subdomain # rtunnels[j].subdomain


\* C31: in server_render.py a heartbeat frame received on a connection
\* that has created a tunnel is answered with a heartbeat_ack, refreshes
\* the last_activity of that tunnel and leaves the connection open, also
\* after a turn of cleanup_old_tunnels
C31_HeartbeatAcked ==
    [][\A c \in Conns :
          RenderHeartbeat(c) =>
              /\ rpc'[c] = "open"
              /\ rreply'[c] = "heartbeat_ack"
              /\ \E i \in DOMAIN rtunnels' :
                     rtunnels'[i].id = rtid[c] /\ ~rtunnels'[i].stale]_vars


\* C32: in server.py the maps tunnels and subdomains have the same keys and
\* map each key to the same connection whenever another coroutine can run
C32_RegistryMapsAgree ==
    /\ DOMAIN tunnels = DOMAIN subdomains
    /\ \A l \in DOMAIN tunnels : tunnels[l] = subdomains[l]

\* one session has been torn down while another is still registered
C32_Witness ==
    /\ \E c \in Conns : teardowns[c] >= 1
    /\ \E l \in DOMAIN tunnels : wpc[tunnels[l]] = "loop"


\* C33: whenever another coroutine can run, every subdomain that has at
\* least one entry in pending_responses is registered in tunnels
C33_PendingOnlyForRegistered ==
    \A s \in DOMAIN pending_responses :
        DOMAIN pending_responses[s] # {} => s \in DOMAIN tunnels

\* a session with a pending entry has been torn down, and another
\* subdomain still holds a pending entry
C33_Witness ==
    /\ \E r \in Reqs : Waiting(r) /\ hsub[r] \notin DOMAIN tunnels
    /\ \E s \in DOMAIN pending_responses : DOMAIN pending_responses[s] # {}


\* C34: once an http_handler invocation that stored its pending future has
\* returned, whichever way it ended, pending_responses holds no entry for
\* that invocation's request
C34_NoEntryAfterReturn ==
    \A r \in Reqs :
        hpc[r] = "done" =>
            \A s \in DOMAIN pending_responses :
                \A id \in DOMAIN pending_responses[s] :
                    pending_responses[s][id] # r


\* C35: the cleanup at the end of an http_handler invocation removes only
\* the pending entry this invocation created: when it returns, the entry of
\* every other request waiting on the same subdomain is still present and
\* still bound to that request's future
C35_CleanupRemovesOwnEntryOnly ==
    [][\A r \in Reqs : \A q \in Reqs \ {r} :
          ( /\ HttpResume(r)
            /\ Waiting(q)
            /\ hsub[q] = hsub[r]
            /\ HasPending(pending_responses, hsub[q], hrid[q])
            /\ pending_responses[hsub[q]][hrid[q]] = q )
          => /\ HasPending(pending_responses', hsub[q], hrid[q])
             /\ pending_responses'[hsub[q]][hrid[q]] = q]_vars


\* C36: the client serves the request frames of one control connection one
\* at a time: at most one request of the loop is without its sent response,
\* and then the client is in the local call, at the send or has left the
\* loop; no frame is read while a response is outstanding; the responses
\* are sent in the order in which the requests were received
C36_OneAtATime ==
    /\ [](/\ Len(LoopRequests) - Len(csent) \in {0, 1}
          /\ Len(LoopRequests) - Len(csent) = 1 => cpc \in {"local", "send", "ended"}
          /\ cpc \in {"local", "send"} => Len(LoopRequests) - Len(csent) = 1
          /\ \A i \in 1..Len(csent) :
                 csent[i].request_id = LoopRequests[i].request_id)
    /\ [][crecv' # crecv => Len(csent) = Len(LoopRequests)]_vars

\* two requests with different ids have been answered and a third one is
\* in the local call
C36_Witness ==
    /\ Len(csent) = 2
    /\ csent[1].request_id # csent[2].request_id
    /\ cpc = "local"
    /\ Len(LoopRequests) = 3


\* C37: in server_render.py, once the handler of a WebSocket connection has
\* finished, no tunnel created by that connection is left in the registry,
\* whatever messages the connection sent
C37_NoTunnelOutlivesHandler ==
    \A c \in Conns :
        rpc[c] \in {"closed", "crashed"} =>
            \A i \in DOMAIN rtunnels : rtunnels[i].conn # c


\* C38: in server_render.py the teardown of one WebSocket connection never
\* removes a tunnel that belongs to a different connection that is still
\* open, also when both used the same subdomain and client_id prefix
C38_TeardownSparesOthers ==
    [][\A c \in Conns : \A d \in Conns \ {c} :
          ( /\ rpc[c] = "open"
            /\ rpc'[c] \in {"closed", "crashed"}
            /\ rpc[d] = "open" )
          => \A i \in DOMAIN rtunnels :
                 rtunnels[i].conn = d =>
                     \E j \in DOMAIN rtunnels' : rtunnels'[j] = rtunnels[i]]_vars


=============================================================================
